---- MODULE Spec2Model ----
(***************************************************************************)
(* Checkout-core: the retry engine (RetryService), its retry queue and the *)
(* event bus (CheckoutEventEmitter) it publishes to.                       *)
(*                                                                         *)
(* JavaScript runs one task at a time and a task runs to its next await:   *)
(* every action below is the code between two awaits of one async call.    *)
(***************************************************************************)
EXTENDS Integers, Sequences, FiniteSets, TLC

(* ------------------------------ bounds -------------------------------- *)
\* largest maxAttempts a caller passes to the constructor (0 is passed too)
MaxSupplied == 2
\* direct executeWithRetry calls made by callers
NumCallers == 2
\* queueForRetry calls made by producers
NumProducers == 2
\* processRetryQueue invocations (drain cycles)
MaxCycles == 2
\* processWebhook calls
NumWebhooks == 1

(* --------------------------- event names ------------------------------ *)
\* an event name is its ':'-delimited segments
RETRY_ATTEMPT == <<"retry", "attempt">>
RETRY_SUCCESS == <<"retry", "success">>
RETRY_FAILED == <<"retry", "failed">>
RETRY_EXHAUSTED == <<"retry", "exhausted">>
RETRY_SCHEDULED == <<"retry", "scheduled">>
RETRY_QUEUED == <<"retry", "queued">>
RETRY_QUEUE_ITEM_FAILED == <<"retry", "queue", "item", "failed">>

(* ------------------------------ values -------------------------------- *)
\* the value of an unassigned local, and of `throw lastError!` before any catch
Undefined == <<"undefined", 0>>
\* the Error thrown by operation.execute() on attempt a of a call
OpError(a) == <<"operation", a>>
\* the Error thrown by a subscriber's handler during attempt a
HandlerError(a) == <<"handler", a>>
\* reading .message of undefined
TypeError == <<"TypeError", 0>>
\* the QueueStorageError of a failed add
StorageError == <<"storage", 0>>
\* the value operation.execute() resolves to on attempt a
ResultOf(a) == <<"result", a>>
\* no outcome yet
None == <<"none", 0>>

VARIABLES
    config,      \* RetryService.config
    listeners,   \* the bus's handlers, in registration order
    frame,       \* frame[f]: the locals of the executeWithRetry call of f
    context,     \* context[c]: the context object c that callers pass
    queue,       \* RetryQueue: the pending items, in insertion order
    producer,    \* producer[p]: the locals of the queueForRetry call of p
    drain,       \* drain[d]: the locals of the processRetryQueue call of d
    cycles,      \* processRetryQueue calls made so far
    history,     \* history[i]: what the drains did with item i so far
    webhook,     \* webhook[w]: the locals of the processWebhook call of w
    backoff      \* the delays calculateDelay gave for attempts 1, 2, ...

vars == <<config, listeners, frame, context, queue, producer, drain, cycles,
          history, webhook, backoff>>

Callers == 1..NumCallers
\* the callers of processRetryQueue: the queue's consumer, and a second caller
\* whose call may overlap the consumer's
Consumer == {NumCallers + 1}
Drainers == {NumCallers + 1, NumCallers + 2}
Frames == Callers \cup Drainers
Producers == 1..NumProducers
\* a producer's item is identified by the producer
ItemIds == Producers
\* context objects; producers may pass one object with several operations
Contexts == Producers

(* ---------------------- RetryService.constructor ---------------------- *)
\* the documented defaults, the right-hand sides of the || in the constructor
DefaultMaxAttempts == 3
DefaultInitialDelay == 1000
DefaultMaxDelay == 60000
DefaultBackoffFactor == 2
DefaultStrategy == "exponential"

\* config?.field || dflt : a missing, undefined, 0 or "" field yields dflt
OrDefault(partial, field, falsy, dflt) ==
    IF field \in DOMAIN partial /\ partial[field] # falsy
        THEN partial[field] ELSE dflt

\* { field: config?.field || dflt, ..., ...config } : the spread comes last and
\* overwrites every field the caller's object has, whatever its value
Spread(partial, field, value) ==
    IF field \in DOMAIN partial THEN partial[field] ELSE value

Constructor(partial) ==
    [maxAttempts |-> Spread(partial, "maxAttempts",
                        OrDefault(partial, "maxAttempts", 0, DefaultMaxAttempts)),
     initialDelay |-> Spread(partial, "initialDelay",
                        OrDefault(partial, "initialDelay", 0, DefaultInitialDelay)),
     maxDelay |-> Spread(partial, "maxDelay",
                        OrDefault(partial, "maxDelay", 0, DefaultMaxDelay)),
     backoffFactor |-> Spread(partial, "backoffFactor",
                        OrDefault(partial, "backoffFactor", 0, DefaultBackoffFactor)),
     strategy |-> Spread(partial, "strategy",
                        OrDefault(partial, "strategy", "", DefaultStrategy))]

\* the objects callers pass to new RetryService(...): none, or maxAttempts alone
NoConfig == [k \in {} |-> 0]
PartialConfigs ==
    {NoConfig} \cup {[maxAttempts |-> n] : n \in 0..MaxSupplied}

(* ------------------------ CheckoutEventEmitter ------------------------ *)
\* EventEmitter2 with wildcard: true, delimiter ':' : "*" stands for one
\* segment, "**" for any number of segments
RECURSIVE Matches(_, _)
Matches(pattern, name) ==
    IF pattern = <<>> THEN name = <<>>
    ELSE IF Head(pattern) = "**"
        THEN \E k \in 0..Len(name) :
                Matches(Tail(pattern), SubSeq(name, k + 1, Len(name)))
    ELSE /\ name # <<>>
         /\ Head(pattern) \in {"*", Head(name)}
         /\ Matches(Tail(pattern), Tail(name))

\* the handlers emit() calls for this event, in registration order: it calls
\* them one after the other and a handler that throws ends the loop, the
\* exception leaving emit() and emitEvent() (neither has a try)
RECURSIVE Invoked(_, _)
Invoked(i, name) ==
    IF i > Len(listeners) THEN <<>>
    ELSE IF ~Matches(listeners[i].pattern, name) THEN Invoked(i + 1, name)
    ELSE IF listeners[i].throws THEN <<i>>
    ELSE <<i>> \o Invoked(i + 1, name)

Matching(name) ==
    {i \in 1..Len(listeners) : Matches(listeners[i].pattern, name)}

\* emitEvent(event, data) throws iff a matching handler throws
EmitThrows(name) == \E i \in Matching(name) : listeners[i].throws

\* what one emitEvent(event, data) call leaves behind: the event as published
\* (data decorated with _metadata) and the handlers that were invoked
emitEvent(name, data) ==
    [name |-> name, data |-> data, source |-> "checkout-core",
     ran |-> Invoked(1, name), threw |-> EmitThrows(name)]

\* the objects callers pass to new RetryService(...) to choose the backoff:
\* none, a strategy alone, or the three numbers and a strategy (a fourth
\* strategy name stands for the unrecognized ones)
Strategies == {"exponential", "linear", "fixed", "jitter"}
BackoffConfigs ==
    {NoConfig} \cup {[strategy |-> s] : s \in Strategies} \cup
    { [initialDelay |-> i, maxDelay |-> m, backoffFactor |-> b, strategy |-> s] :
        i \in {0, 1, 3}, m \in {0, 2, 7}, b \in {0, 1, 3}, s \in Strategies }

\* the handler sets registered on the bus when the service is used
Quiet == [pattern |-> <<"**">>, throws |-> FALSE]
ListenerSetups ==
    { <<>>,
      <<Quiet>>,
      <<[pattern |-> RETRY_SUCCESS, throws |-> TRUE], Quiet>>,
      <<[pattern |-> <<"retry", "*">>, throws |-> FALSE],
        [pattern |-> RETRY_FAILED, throws |-> TRUE], Quiet>> }

\* the handler sets registered on the bus when the queue is used
QueueListenerSetups ==
    { <<Quiet>>,
      <<[pattern |-> <<"retry", "queue", "**">>, throws |-> TRUE], Quiet>>,
      <<[pattern |-> RETRY_SUCCESS, throws |-> TRUE],
        [pattern |-> RETRY_QUEUED, throws |-> TRUE]>> }

(* --------------------- RetryService.calculateDelay -------------------- *)
RECURSIVE Pow(_, _)
Pow(b, e) == IF e <= 0 THEN 1 ELSE b * Pow(b, e - 1)

Min(a, b) == IF a <= b THEN a ELSE b

calculateDelayByFactor(attempt) ==
    IF config.strategy = "linear"
        THEN Min(config.initialDelay * attempt, config.maxDelay)
    ELSE IF config.strategy = "fixed" THEN config.initialDelay
    ELSE Min(config.initialDelay * Pow(config.backoffFactor, attempt - 1),
             config.maxDelay)

calculateDelay(attempt) ==
    CASE config.strategy = "exponential" ->
            Min(config.initialDelay * Pow(config.backoffFactor, attempt - 1),
                config.maxDelay)
      [] config.strategy = "linear" ->
            Min(config.initialDelay * attempt, config.maxDelay)
      [] config.strategy = "fixed" -> config.initialDelay
      [] OTHER ->
            Min(config.initialDelay * Pow(2, attempt - 1), config.maxDelay)

(* -------------------- RetryService.executeWithRetry ------------------- *)
\* the locals of one call; log, execs and outcomes record what the call did
Idle == [pc |-> "idle", op |-> 0, ctx |-> 0, attempt |-> 0,
         lastError |-> Undefined, out |-> None,
         log |-> <<>>, execs |-> 0, outcomes |-> <<>>]

\* let attempt = 0; let lastError
NewFrame(op, ctx) == [Idle EXCEPT !.pc = "loop", !.op = op, !.ctx = ctx]

Publish(fr, name, data) == [fr EXCEPT !.log = Append(@, emitEvent(name, data))]

\* the call's promise is rejected with err
Raise(fr, err) == [fr EXCEPT !.pc = "raised", !.out = err]

\* the call's promise is fulfilled with result
Return(fr, result) == [fr EXCEPT !.pc = "returned", !.out = result]

\* lastError = error
RememberFirst(fr, error) ==
    IF fr.lastError = Undefined THEN [fr EXCEPT !.lastError = error] ELSE fr

Remember(fr, error) == [fr EXCEPT !.lastError = error]

\* if (attempt === this.config.maxAttempts)
IsLastAttemptOffByOne(fr) == fr.attempt + 1 = config.maxAttempts

IsLastAttempt(fr) == fr.attempt = config.maxAttempts

\* the retry:scheduled event of the attempt that failed
ScheduledUnpublished(fr, delay) == fr

Scheduled(fr, delay) ==
    Publish(fr, RETRY_SCHEDULED,
            [attempt |-> fr.attempt, nextAttempt |-> fr.attempt + 1,
             delay |-> delay])

\* catch (error) { ... } of the loop body, up to the next await or the throw
CatchBlock(fr0, error) ==
    LET fr == Remember(fr0, error)
        failed == Publish(fr, RETRY_FAILED,
                          [attempt |-> fr.attempt, error |-> error])
    IN  IF EmitThrows(RETRY_FAILED) THEN Raise(failed, HandlerError(fr.attempt))
        ELSE IF IsLastAttempt(fr)
            THEN LET exhausted == Publish(failed, RETRY_EXHAUSTED,
                        [maxAttempts |-> config.maxAttempts, error |-> error])
                 IN  IF EmitThrows(RETRY_EXHAUSTED)
                         THEN Raise(exhausted, HandlerError(fr.attempt))
                         \* break; throw lastError!
                         ELSE Raise(exhausted, exhausted.lastError)
            ELSE LET delay == calculateDelay(fr.attempt)
                     scheduled == Scheduled(failed, delay)
                 IN  IF EmitThrows(RETRY_SCHEDULED)
                         THEN Raise(scheduled, HandlerError(fr.attempt))
                         \* await this.delay(delay)
                         ELSE [scheduled EXCEPT !.pc = "sleeping"]

\* while (attempt < this.config.maxAttempts)
LoopContinuesShared(fr) ==
    \A g \in Frames : frame[g].attempt < config.maxAttempts

LoopContinues(fr) == fr.attempt < config.maxAttempts

\* while (attempt < maxAttempts) { try { attempt++; emit; execute() ...
\* up to the await of operation.execute(), or throw lastError! after the loop
LoopHead(fr0) ==
    IF ~LoopContinues(fr0) THEN Raise(fr0, fr0.lastError)
    ELSE LET fr == [fr0 EXCEPT !.attempt = @ + 1]
             attempted == Publish(fr, RETRY_ATTEMPT,
                [attempt |-> fr.attempt, maxAttempts |-> config.maxAttempts])
         IN  IF EmitThrows(RETRY_ATTEMPT)
                 THEN CatchBlock(attempted, HandlerError(fr.attempt))
                 ELSE [attempted EXCEPT !.pc = "executing", !.execs = @ + 1]

\* operation.execute() has settled: the rest of the try block, or the catch
Settled(fr0, outcome) ==
    LET fr == [fr0 EXCEPT !.outcomes = Append(@, outcome)]
    IN  IF outcome = "ok"
        THEN LET succeeded == Publish(fr, RETRY_SUCCESS,
                    [attempt |-> fr.attempt, result |-> ResultOf(fr.attempt)])
             IN  IF EmitThrows(RETRY_SUCCESS)
                     THEN CatchBlock(succeeded, HandlerError(fr.attempt))
                     ELSE Return(succeeded, ResultOf(fr.attempt))
        ELSE CatchBlock(fr, OpError(fr.attempt))

\* the operations callers hand to the service; producer p enqueues operation p
Ops == 1..NumProducers

(* --------------------- RetryQueue (retry-queue.ts) -------------------- *)
\* getPending(): the not-yet-resolved items in insertion order, a new sequence
getPending == queue

\* add(item) appends
add(item) == Append(queue, item)

\* remove(item) removes by identity
remove(item) == SelectSeq(queue, LAMBDA it : it.id # item.id)

Ids(items) == {items[k].id : k \in 1..Len(items)}

(* ---------------------- RetryService.queueForRetry -------------------- *)
Waiting == [pc |-> "idle", item |-> None, stored |-> FALSE, out |-> None,
            log |-> <<>>]

\* const retryItem = { operation, context, config: this.config, createdAt }
RetryItem(id, op, ctx) ==
    [id |-> id, operation |-> op, context |-> ctx, config |-> config]

\* after await this.retryQueue.add(retryItem)
AfterAddUnawaited(pr) ==
    LET queued == [pr EXCEPT !.log = Append(@,
                        emitEvent(RETRY_QUEUED, [operation |-> pr.item.operation]))]
    IN  IF EmitThrows(RETRY_QUEUED)
            THEN [queued EXCEPT !.pc = "raised", !.out = HandlerError(0)]
            ELSE [queued EXCEPT !.pc = "done"]

\* after await this.retryQueue.add(retryItem): a rejected add rejects the call,
\* otherwise retry:queued is published
AfterAdd(pr) ==
    IF ~pr.stored THEN [pr EXCEPT !.pc = "raised", !.out = StorageError]
    ELSE LET queued == [pr EXCEPT !.log = Append(@,
                            emitEvent(RETRY_QUEUED, [operation |-> pr.item.operation]))]
         IN  IF EmitThrows(RETRY_QUEUED)
                 THEN [queued EXCEPT !.pc = "raised", !.out = HandlerError(0)]
                 ELSE [queued EXCEPT !.pc = "done"]

(* --------------------- RetryService.processRetryQueue ----------------- *)
Resting == [pc |-> "idle", items |-> <<>>, idx |-> 0, out |-> None,
            pendingAtCall |-> <<>>, started |-> <<>>, log |-> <<>>]

\* the items the for loop of this cycle iterates
BatchLive(d) == queue

Batch(d) == drain[d].items

\* the item of the current iteration
Current(d) == Batch(d)[drain[d].idx]

\* item.context.retryCount || 0
RetryCountOf(ctx) ==
    IF "retryCount" \in DOMAIN context[ctx] /\ context[ctx].retryCount # 0
        THEN context[ctx].retryCount ELSE 0

\* item.context.retryCount = (item.context.retryCount || 0) + 1
IncrementedFromOne(ctx) ==
    (IF RetryCountOf(ctx) = 0 THEN 1 ELSE RetryCountOf(ctx)) + 1

Incremented(ctx) == RetryCountOf(ctx) + 1

\* if (item.context.retryCount >= item.config.maxAttempts)
GivesUpEarly(item, retryCount) == retryCount + 1 >= item.config.maxAttempts

GivesUpLate(item, retryCount) == retryCount > item.config.maxAttempts

GivesUp(item, retryCount) == retryCount >= item.config.maxAttempts

\* error.message, the argument of the retry:queue:item:failed event
MessageOfMissing(error) == TypeError

MessageOf(error) == IF error = Undefined THEN TypeError ELSE error

NoHistory == [handled |-> 0, execs |-> 0, failedEvents |-> 0,
              succeeded |-> FALSE, handlerThrew |-> FALSE, removed |-> "no"]

ThrewIn(log) == \E k \in 1..Len(log) : log[k].threw

\* what the finished executeWithRetry call of drain d adds to its item's history
Handled(h, fr) ==
    [h EXCEPT !.handled = @ + 1,
              !.execs = @ + fr.execs,
              !.succeeded = @ \/ (\E k \in 1..Len(fr.outcomes) : fr.outcomes[k] = "ok"),
              !.handlerThrew = @ \/ ThrewIn(fr.log)]

(* -------------------- WebhookHandler.processWebhook ------------------- *)
Webhooks == 1..NumWebhooks

WEBHOOK_VERIFICATION_FAILED == <<"webhook", "verification", "failed">>
WEBHOOK_RECEIVED == <<"webhook", "received">>
WEBHOOK_PROCESSED == <<"webhook", "processed">>
WEBHOOK_PROCESSING_FAILED == <<"webhook", "processing", "failed">>
WEBHOOK_EVENT == <<"webhook", "event">>

\* new Error(`Webhook verification failed: ${verification.error}`)
VerificationError(reason) == <<"verification", reason>>

\* the message a verifier reports: in the invalid result it returns, or in
\* the exception it throws
SignatureMismatch == 1
VerifierException == 2

\* payloads: null, or an object with string fields
JsNull == [null |-> "null"]
Payloads ==
    { JsNull,
      [id |-> "evt_1"],
      [type |-> ""],
      [type |-> "payment_intent.succeeded"],
      [type |-> "something.new"],
      [event_type |-> "PAYMENT.CAPTURE.COMPLETED"],
      [event_type |-> "CHECKOUT.ORDER.APPROVED"],
      [event |-> "order.paid", type |-> "payment_intent.succeeded"] }

Providers == {"stripe", "paypal", "square"}

\* what validateWebhookSignature(payload, signature, secret) does
VerifierOutcomes == {"valid", "invalid", "throws"}

\* payload.field || 'unknown' chains: the first field that is present and
\* not the empty string
RECURSIVE FirstTruthy(_, _)
FirstTruthy(payload, fields) ==
    IF fields = <<>> THEN "unknown"
    ELSE IF Head(fields) \in DOMAIN payload /\ payload[Head(fields)] # ""
        THEN payload[Head(fields)]
    ELSE FirstTruthy(payload, Tail(fields))

\* mapProviderEvent(provider, payload), for a payload that is not null
mapProviderEvent(provider, payload) ==
    CASE provider = "stripe" -> FirstTruthy(payload, <<"type">>)
      [] provider = "paypal" -> FirstTruthy(payload, <<"event_type">>)
      [] OTHER -> FirstTruthy(payload, <<"event", "type">>)

\* getEventMap(provider): maps[provider] || {}
getEventMap(provider) ==
    CASE provider = "stripe" ->
            ( "payment_intent.succeeded" :> <<"payment", "captured">>
           @@ "payment_intent.payment_failed" :> <<"payment", "failed">>
           @@ "charge.refunded" :> <<"payment", "refunded">>
           @@ "customer.subscription.created" :> <<"subscription", "created">>
           @@ "customer.subscription.updated" :> <<"subscription", "updated">>
           @@ "customer.subscription.deleted" :> <<"subscription", "cancelled">>
           @@ "invoice.payment_succeeded" :> <<"subscription", "invoice", "paid">>
           @@ "invoice.payment_failed" :>
                  <<"subscription", "invoice", "payment", "failed">> )
      [] provider = "paypal" ->
            ( "PAYMENT.CAPTURE.COMPLETED" :> <<"payment", "captured">>
           @@ "PAYMENT.CAPTURE.DENIED" :> <<"payment", "declined">>
           @@ "PAYMENT.CAPTURE.REFUNDED" :> <<"payment", "refunded">>
           @@ "BILLING.SUBSCRIPTION.ACTIVATED" :> <<"subscription", "activated">>
           @@ "BILLING.SUBSCRIPTION.CANCELLED" :> <<"subscription", "cancelled">>
           @@ "BILLING.SUBSCRIPTION.EXPIRED" :> <<"subscription", "expired">> )
      [] OTHER -> [k \in {} |-> <<>>]

\* `webhook:${provider}:${eventType}`, as the bus splits it at its delimiter
FallbackUnprefixed(provider, eventType) == <<provider, eventType>>

Fallback(provider, eventType) == <<"webhook", provider, eventType>>

\* eventMap[eventType] || `webhook:${provider}:${eventType}`
InternalEventUnmapped(provider, eventType) == Fallback(provider, eventType)

InternalEvent(provider, eventType) ==
    LET eventMap == getEventMap(provider)
    IN  IF eventType \in DOMAIN eventMap THEN eventMap[eventType]
        ELSE Fallback(provider, eventType)

\* verifyWebhook: stripe asks validateWebhookSignature, whose exception the
\* catch turns into an invalid result; the other providers are not checked
verifyWebhookFailOpen(provider, outcome) ==
    IF provider = "stripe" /\ outcome = "invalid"
        THEN [valid |-> FALSE, error |-> SignatureMismatch]
        ELSE [valid |-> TRUE, error |-> 0]

verifyWebhook(provider, outcome) ==
    IF provider # "stripe" THEN [valid |-> TRUE, error |-> 0]
    ELSE CASE outcome = "valid" -> [valid |-> TRUE, error |-> 0]
           [] outcome = "invalid" -> [valid |-> FALSE, error |-> SignatureMismatch]
           [] outcome = "throws" -> [valid |-> FALSE, error |-> VerifierException]

\* a processWebhook call: its parameters, what the verifier did, the events
\* it published, and how it ended
Unreceived == [pc |-> "idle", provider |-> "", payload |-> JsNull,
               verifier |-> "", eventType |-> "", routed |-> None,
               log |-> <<>>, out |-> None]

\* the exception of the handler that threw in the call's last emitEvent
Thrown(wh) == HandlerError(Len(wh.log))

Threw(wh) == wh.log[Len(wh.log)].threw

\* catch (error) { emitEvent('webhook:processing:failed', ...); throw error }
processingFailedSilent(wh, error) == Raise(wh, error)

processingFailed(wh, error) ==
    LET failed == Publish(wh, WEBHOOK_PROCESSING_FAILED,
                          [provider |-> wh.provider, error |-> error,
                           payload |-> wh.payload])
    IN  IF Threw(failed) THEN Raise(failed, Thrown(failed))
        ELSE Raise(failed, error)

routeWebhookEventGenericFirst(wh) ==
    LET generic == Publish(wh, WEBHOOK_EVENT,
                           [provider |-> wh.provider,
                            eventType |-> wh.eventType,
                            payload |-> wh.payload])
        internal == Publish(generic, InternalEvent(wh.provider, wh.eventType),
                            [provider |-> wh.provider,
                             originalEvent |-> wh.eventType,
                             payload |-> wh.payload])
    IN  IF Threw(generic)
            THEN [generic EXCEPT !.pc = "routing", !.routed = Thrown(generic)]
        ELSE IF Threw(internal)
            THEN [internal EXCEPT !.pc = "routing", !.routed = Thrown(internal)]
        ELSE [internal EXCEPT !.pc = "routing"]

\* routeWebhookEvent(provider, eventType, payload): an async function without
\* an await, so its body runs inside the call and an exception in it rejects
\* the promise that processWebhook awaits
routeWebhookEvent(wh) ==
    LET internal == Publish(wh, InternalEvent(wh.provider, wh.eventType),
                            [provider |-> wh.provider,
                             originalEvent |-> wh.eventType,
                             payload |-> wh.payload])
        generic == Publish(internal, WEBHOOK_EVENT,
                           [provider |-> wh.provider,
                            eventType |-> wh.eventType,
                            payload |-> wh.payload])
    IN  IF Threw(internal)
            THEN [internal EXCEPT !.pc = "routing", !.routed = Thrown(internal)]
        ELSE IF Threw(generic)
            THEN [generic EXCEPT !.pc = "routing", !.routed = Thrown(generic)]
        ELSE [generic EXCEPT !.pc = "routing"]

\* processWebhook from the verification result to the await of
\* routeWebhookEvent, or through the catch
AfterVerification(wh, verification) ==
    IF ~verification.valid
    THEN LET refused == Publish(wh, WEBHOOK_VERIFICATION_FAILED,
                                [provider |-> wh.provider,
                                 error |-> verification.error])
         IN  IF Threw(refused) THEN processingFailed(refused, Thrown(refused))
             ELSE processingFailed(refused, VerificationError(verification.error))
    \* payload.type of a null payload
    ELSE IF wh.payload = JsNull THEN processingFailed(wh, TypeError)
    ELSE LET typed == [wh EXCEPT !.eventType =
                            mapProviderEvent(wh.provider, wh.payload)]
             received == Publish(typed, WEBHOOK_RECEIVED,
                                 [provider |-> typed.provider,
                                  eventType |-> typed.eventType,
                                  payload |-> typed.payload])
         IN  IF Threw(received) THEN processingFailed(received, Thrown(received))
             ELSE routeWebhookEvent(received)

\* processWebhook after the await of routeWebhookEvent
AfterRouting(wh) ==
    IF wh.routed # None THEN processingFailed(wh, wh.routed)
    ELSE LET processed == Publish(wh, WEBHOOK_PROCESSED,
                                  [provider |-> wh.provider,
                                   eventType |-> wh.eventType,
                                   payload |-> wh.payload])
         IN  IF Threw(processed) THEN processingFailed(processed, Thrown(processed))
             ELSE Return(processed, Undefined)

\* the handler sets registered on the bus when webhooks arrive
WebhookListenerSetups ==
    { <<Quiet>>,
      <<[pattern |-> WEBHOOK_RECEIVED, throws |-> TRUE], Quiet>>,
      <<[pattern |-> <<"payment", "*">>, throws |-> TRUE], Quiet>>,
      <<Quiet, [pattern |-> WEBHOOK_EVENT, throws |-> TRUE]>>,
      <<[pattern |-> WEBHOOK_PROCESSED, throws |-> TRUE]>>,
      <<Quiet, [pattern |-> <<"webhook", "*", "failed">>, throws |-> TRUE]>> }

(* ------------------------------ actions ------------------------------- *)
\* a caller calls executeWithRetry(operation): the code up to its first await
Call(c) ==
    /\ frame[c].pc = "idle"
    /\ \E op \in Ops : frame' = [frame EXCEPT ![c] = LoopHead(NewFrame(op, 0))]
    /\ UNCHANGED <<config, listeners, context, queue, producer, drain, cycles,
                   history,
                   webhook, backoff>>

\* executeWithRetry(operation, {maxAttempts: m}): the caller's context object
\* supplies a retry-config field
CallWith(c) ==
    /\ frame[c].pc = "idle"
    /\ c \in Contexts
    /\ \E op \in Ops, m \in 1..MaxSupplied :
         /\ context' = [context EXCEPT ![c] = [maxAttempts |-> m]]
         /\ frame' = [frame EXCEPT ![c] = LoopHead(NewFrame(op, c))]
    /\ UNCHANGED <<config, listeners, queue, producer, drain, cycles, history,
                   webhook, backoff>>

\* the promise of operation.execute() is fulfilled or rejected
ExecSettles(f) ==
    /\ frame[f].pc = "executing"
    /\ \E outcome \in {"ok", "fail"} :
            frame' = [frame EXCEPT ![f] = Settled(frame[f], outcome)]
    /\ UNCHANGED <<config, listeners, context, queue, producer, drain, cycles,
                   history,
                   webhook, backoff>>

\* the timer of this.delay(delay) fires: back to the head of the loop
DelayElapsed(f) ==
    /\ frame[f].pc = "sleeping"
    /\ frame' = [frame EXCEPT ![f] = LoopHead(frame[f])]
    /\ UNCHANGED <<config, listeners, context, queue, producer, drain, cycles,
                   history,
                   webhook, backoff>>

\* producer p calls queueForRetry(operation, context): the item is built and
\* handed to retryQueue.add, which stores it or fails; the code after the await
\* reads and writes nothing but the bus, so it is taken in the same step
QueueForRetry(p) ==
    /\ producer[p].pc = "idle"
    /\ \E ctx \in {1, p}, stored \in BOOLEAN :
        LET retryItem == RetryItem(p, p, ctx)
        IN  /\ producer' = [producer EXCEPT ![p] =
                    AfterAdd([@ EXCEPT !.item = retryItem, !.stored = stored])]
            /\ queue' = IF stored THEN add(retryItem) ELSE queue
    /\ UNCHANGED <<config, listeners, frame, context, drain, cycles, history,
                   webhook, backoff>>

\* processRetryQueue(): const items = await this.retryQueue.getPending()
ProcessRetryQueue(d) ==
    /\ drain[d].pc \in {"idle", "done", "raised"}
    /\ cycles < MaxCycles
    /\ cycles' = cycles + 1
    /\ drain' = [drain EXCEPT ![d] =
            [Resting EXCEPT !.pc = "loop", !.items = getPending,
                            !.pendingAtCall = queue]]
    /\ UNCHANGED <<config, listeners, frame, context, queue, producer, history,
                   webhook, backoff>>

\* for (const item of items): the next item's executeWithRetry is called and
\* runs to its first await, or the loop and the call end
DrainNext(d) ==
    /\ drain[d].pc = "loop"
    /\ IF drain[d].idx >= Len(Batch(d))
        THEN /\ drain' = [drain EXCEPT ![d].pc = "done"]
             /\ frame' = frame
        ELSE LET item == Batch(d)[drain[d].idx + 1]
             IN  /\ drain' = [drain EXCEPT ![d].idx = @ + 1,
                                           ![d].pc = "awaiting",
                                           ![d].started = Append(@, item.id)]
                 /\ frame' = [frame EXCEPT ![d] =
                        LoopHead(NewFrame(item.operation, item.context))]
    /\ UNCHANGED <<config, listeners, context, queue, producer, cycles, history,
                   webhook, backoff>>

\* await this.executeWithRetry(...) is over: the rest of the try block when it
\* returned, the catch block when it raised
DrainSettles(d) ==
    /\ drain[d].pc = "awaiting"
    /\ frame[d].pc \in {"returned", "raised"}
    /\ LET item == Current(d)
           error == frame[d].out
           retryCount == Incremented(item.context)
           failed == emitEvent(RETRY_QUEUE_ITEM_FAILED,
                        [operation |-> item.operation, retryCount |-> retryCount,
                         error |-> MessageOf(error)])
           h == Handled(history[item.id], frame[d])
       IN  IF frame[d].pc = "returned"
           THEN /\ queue' = remove(item)
                /\ drain' = [drain EXCEPT ![d].pc = "loop"]
                /\ history' = [history EXCEPT ![item.id] =
                        [h EXCEPT !.removed = "on success"]]
                /\ context' = context
           ELSE /\ context' = [context EXCEPT ![item.context] =
                        [retryCount |-> retryCount]]
                /\ IF ~GivesUp(item, retryCount)
                   THEN /\ queue' = queue
                        /\ drain' = [drain EXCEPT ![d].pc = "loop"]
                        /\ history' = [history EXCEPT ![item.id] = h]
                   ELSE /\ queue' = remove(item)
                        /\ IF MessageOf(error) = TypeError
                           THEN /\ drain' = [drain EXCEPT ![d].pc = "raised",
                                                          ![d].out = TypeError]
                                /\ history' = [history EXCEPT ![item.id] =
                                    [h EXCEPT !.removed = "on giving up"]]
                           ELSE /\ drain' = [drain EXCEPT
                                    ![d].log = Append(@, failed),
                                    ![d].pc = IF failed.threw THEN "raised" ELSE "loop",
                                    ![d].out = IF failed.threw THEN HandlerError(0) ELSE @]
                                /\ history' = [history EXCEPT ![item.id] =
                                    [h EXCEPT !.failedEvents = @ + 1,
                                              !.handlerThrew = @ \/ failed.threw,
                                              !.removed = "on giving up"]]
    /\ frame' = [frame EXCEPT ![d] = Idle]
    /\ UNCHANGED <<config, listeners, producer, cycles,
                   webhook, backoff>>

\* processWebhook(params) is called: up to the await of verifyWebhook
ProcessWebhook(w) ==
    /\ webhook[w].pc = "idle"
    /\ \E provider \in Providers, payload \in Payloads :
         webhook' = [webhook EXCEPT ![w] =
            [@ EXCEPT !.pc = "verifying", !.provider = provider,
                      !.payload = payload]]
    /\ UNCHANGED <<config, listeners, frame, context, queue, producer, drain,
                   cycles, history, backoff>>

\* verifyWebhook has settled
Verified(w) ==
    /\ webhook[w].pc = "verifying"
    /\ \E outcome \in VerifierOutcomes :
         LET wh == [webhook[w] EXCEPT !.verifier = outcome]
         IN  webhook' = [webhook EXCEPT ![w] =
                AfterVerification(wh, verifyWebhook(wh.provider, outcome))]
    /\ UNCHANGED <<config, listeners, frame, context, queue, producer, drain,
                   cycles, history, backoff>>

\* routeWebhookEvent's promise has settled
Routed(w) ==
    /\ webhook[w].pc = "routing"
    /\ webhook' = [webhook EXCEPT ![w] = AfterRouting(@)]
    /\ UNCHANGED <<config, listeners, frame, context, queue, producer, drain,
                   cycles, history, backoff>>

\* calculateDelay(attempt) for the next attempt number, up to maxAttempts
ComputeDelay ==
    /\ Len(backoff) < config.maxAttempts
    /\ backoff' = Append(backoff, calculateDelay(Len(backoff) + 1))
    /\ UNCHANGED <<config, listeners, frame, context, queue, producer, drain,
                   cycles, history, webhook>>

Quiescent ==
    /\ frame = [f \in Frames |-> Idle]
    /\ context = [c \in Contexts |-> [k \in {} |-> 0]]
    /\ queue = <<>>
    /\ producer = [p \in Producers |-> Waiting]
    /\ drain = [d \in Drainers |-> Resting]
    /\ cycles = 0
    /\ history = [i \in ItemIds |-> NoHistory]
    /\ webhook = [w \in Webhooks |-> Unreceived]
    /\ backoff = <<>>

\* the service after construction, on a bus with its handlers registered
Init ==
    /\ config \in {Constructor(p) : p \in PartialConfigs}
    /\ listeners \in ListenerSetups
    /\ Quiescent

InitQueue ==
    /\ config \in {Constructor(p) : p \in PartialConfigs}
    /\ listeners \in QueueListenerSetups
    /\ Quiescent

\* callers of executeWithRetry
Next ==
    \/ \E c \in Callers : Call(c)
    \/ \E f \in Frames : ExecSettles(f)
    \/ \E f \in Frames : DelayElapsed(f)

Spec == Init /\ [][Next]_vars

\* producers and the drain of the retry queue
NextQueue ==
    \/ \E p \in Producers : QueueForRetry(p)
    \/ \E d \in Consumer : ProcessRetryQueue(d)
    \/ \E d \in Consumer : DrainNext(d)
    \/ \E d \in Consumer : DrainSettles(d)
    \/ \E f \in Frames : ExecSettles(f)
    \/ \E f \in Frames : DelayElapsed(f)

SpecQueue == InitQueue /\ [][NextQueue]_vars

\* producers and processRetryQueue calls that may overlap (a timer that calls
\* it again before the previous call is over)
InitOverlap ==
    /\ config \in {Constructor(p) : p \in PartialConfigs}
    /\ listeners = <<Quiet>>
    /\ Quiescent

NextOverlap ==
    \/ \E p \in Producers : QueueForRetry(p)
    \/ \E d \in Drainers : ProcessRetryQueue(d)
    \/ \E d \in Drainers : DrainNext(d)
    \/ \E d \in Drainers : DrainSettles(d)
    \/ \E f \in Frames : ExecSettles(f)
    \/ \E f \in Frames : DelayElapsed(f)

SpecOverlap == InitOverlap /\ [][NextOverlap]_vars

\* webhooks arriving at a WebhookHandler
InitWebhook ==
    /\ config = Constructor(NoConfig)
    /\ listeners \in WebhookListenerSetups
    /\ Quiescent

NextWebhook ==
    \/ \E w \in Webhooks : ProcessWebhook(w)
    \/ \E w \in Webhooks : Verified(w)
    \/ \E w \in Webhooks : Routed(w)

SpecWebhook == InitWebhook /\ [][NextWebhook]_vars

\* one caller of executeWithRetry and the delays of the configured backoff
First == {1}

InitBackoff ==
    /\ config \in {Constructor(p) : p \in BackoffConfigs}
    /\ listeners = <<Quiet>>
    /\ Quiescent

NextBackoff ==
    \/ ComputeDelay
    \/ \E c \in First : Call(c)
    \/ \E f \in First : ExecSettles(f)
    \/ \E f \in First : DelayElapsed(f)

SpecBackoff == InitBackoff /\ [][NextBackoff]_vars

\* callers of executeWithRetry, with and without retry-config fields in the
\* context object
InitOverride ==
    /\ config \in {Constructor(p) : p \in PartialConfigs}
    /\ listeners = <<Quiet>>
    /\ Quiescent

NextOverride ==
    \/ \E c \in Callers : Call(c)
    \/ \E c \in Callers : CallWith(c)
    \/ \E f \in Callers : ExecSettles(f)
    \/ \E f \in Callers : DelayElapsed(f)

SpecOverride == InitOverride /\ [][NextOverride]_vars

(* ============================ the claims ============================== *)
\* the names of the events a call or a drain published, in order
Names(log) == [k \in 1..Len(log) |-> log[k].name]

Count(log, name) == Cardinality({k \in 1..Len(log) : log[k].name = name})

\* the outcomes of the call's execute() invocations that were failures
Failures(fr) == Cardinality({k \in 1..Len(fr.outcomes) : fr.outcomes[k] = "fail"})

\* every handler the call's events reached returned normally
Undisturbed(fr) == ~ThrewIn(fr.log)

\* (attempt, failed, scheduled) n times
RECURSIVE Rounds(_)
Rounds(n) ==
    IF n <= 0 THEN <<>>
    ELSE <<RETRY_ATTEMPT, RETRY_FAILED, RETRY_SCHEDULED>> \o Rounds(n - 1)

\* C1: with maxAttempts = N >= 1, a call whose operation failed on every attempt
\* (its subscribers returning normally) has published (attempt, failed, scheduled)
\* N-1 times and then attempt, failed, exhausted: N attempt, N failed, N-1
\* scheduled, 1 exhausted, no scheduled after the last failure and no success.
C1_AlwaysFailingEvents ==
    \A f \in Frames :
        ( /\ frame[f].pc = "raised"
          /\ config.maxAttempts >= 1
          /\ Undisturbed(frame[f])
          /\ Failures(frame[f]) = Len(frame[f].outcomes) )
        => /\ Len(frame[f].outcomes) = config.maxAttempts
           /\ Names(frame[f].log) =
                Rounds(config.maxAttempts - 1)
                    \o <<RETRY_ATTEMPT, RETRY_FAILED, RETRY_EXHAUSTED>>
           /\ Count(frame[f].log, RETRY_ATTEMPT) = config.maxAttempts
           /\ Count(frame[f].log, RETRY_FAILED) = config.maxAttempts
           /\ Count(frame[f].log, RETRY_SCHEDULED) = config.maxAttempts - 1
           /\ Count(frame[f].log, RETRY_EXHAUSTED) = 1
           /\ Count(frame[f].log, RETRY_SUCCESS) = 0

\* the spec's scenario: three failed attempts with maxAttempts = 3
C1_Witness ==
    \E f \in Frames :
        /\ frame[f].pc = "raised"
        /\ config.maxAttempts = 3
        /\ Undisturbed(frame[f])
        /\ frame[f].outcomes = <<"fail", "fail", "fail">>

\* C2: a call whose operation failed on its first k attempts and then succeeded
\* (k < maxAttempts, subscribers returning normally) has published k+1 attempt,
\* k failed, k scheduled, 1 success and no exhausted, and returns the result of
\* attempt k+1.
C2_FailsThenSucceedsEvents ==
    \A f \in Frames :
        (frame[f].pc = "returned" /\ Undisturbed(frame[f]))
        => LET k == Failures(frame[f])
           IN  /\ k < config.maxAttempts
               /\ frame[f].outcomes = [j \in 1..(k + 1) |->
                                        IF j <= k THEN "fail" ELSE "ok"]
               /\ Count(frame[f].log, RETRY_ATTEMPT) = k + 1
               /\ Count(frame[f].log, RETRY_FAILED) = k
               /\ Count(frame[f].log, RETRY_SCHEDULED) = k
               /\ Count(frame[f].log, RETRY_SUCCESS) = 1
               /\ Count(frame[f].log, RETRY_EXHAUSTED) = 0
               /\ frame[f].out = ResultOf(k + 1)

\* the spec's scenario: one failure, then success
C2_Witness ==
    \E f \in Frames :
        /\ frame[f].pc = "returned"
        /\ Undisturbed(frame[f])
        /\ frame[f].outcomes = <<"fail", "ok">>

\* C3: whatever the config, a call that returned published exactly one
\* retry:success and a call that raised published exactly one retry:exhausted
\* (stated for calls whose subscribers all returned normally).
C3_OneTerminalEvent ==
    \A f \in Frames :
        Undisturbed(frame[f])
        => /\ frame[f].pc = "returned"
                => Count(frame[f].log, RETRY_SUCCESS) = 1
           /\ frame[f].pc = "raised"
                => Count(frame[f].log, RETRY_EXHAUSTED) = 1

\* C4: within one call execute() is invoked at most maxAttempts times, and
\* after an invocation that succeeded it is not invoked again, whatever the
\* subscribers do.
C4_NoExecuteAfterSuccess ==
    \A f \in Frames :
        /\ frame[f].execs <= config.maxAttempts
        /\ \A k \in 1..Len(frame[f].outcomes) :
                frame[f].outcomes[k] = "ok" => frame[f].execs = k

\* C5: a call that fails after exhausting its attempts (subscribers returning
\* normally) raises the error thrown by the last attempt made.
C5_RaisesLastError ==
    \A f \in Frames :
        ( /\ frame[f].pc = "raised"
          /\ Undisturbed(frame[f])
          /\ Count(frame[f].log, RETRY_EXHAUSTED) = 1 )
        => /\ frame[f].attempt = Len(frame[f].outcomes)
           /\ frame[f].out = OpError(frame[f].attempt)

\* the last error differs from the first: at least two attempts were made
C5_Witness ==
    \E f \in Frames :
        /\ frame[f].pc = "raised"
        /\ Undisturbed(frame[f])
        /\ Count(frame[f].log, RETRY_EXHAUSTED) = 1
        /\ frame[f].attempt >= 2
        /\ frame[f].out # OpError(1)

\* C6: publishing never fails at the call site: every event a call published
\* reached all its matching handlers and emitEvent did not throw into the call.
C6_PublishNeverFails ==
    \A f \in Frames : \A k \in 1..Len(frame[f].log) :
        /\ Len(frame[f].log[k].ran) = Cardinality(Matching(frame[f].log[k].name))
        /\ ~frame[f].log[k].threw

\* the items that were stored and share no context object with another
\* producer's item
OwnContext(i) ==
    /\ producer[i].stored
    /\ \A j \in Producers \ {i} :
            producer[j].pc # "idle"
                => producer[j].item.context # producer[i].item.context

C9_QueueThenPending ==
    [][ \A p \in Producers :
          (producer[p].pc = "idle" /\ producer'[p].pc # "idle")
          => LET item == producer'[p].item
             IN  /\ (queue = <<>> /\ producer'[p].out # StorageError)
                    => /\ getPending' = <<item>>
                       /\ item.operation = p
                       /\ item.config = config
                 /\ Count(producer'[p].log, RETRY_QUEUED) > 0
                    => item.id \in Ids(queue')
                 /\ item.id \notin Ids(queue')
                    => /\ producer'[p].pc = "raised"
                       /\ producer'[p].out = StorageError
                       /\ producer'[p].log = <<>>
                       /\ queue' = queue
      ]_vars

\* one item queued on an empty queue, and a producer whose add failed
C9_Witness ==
    \E p, q \in Producers :
        /\ producer[p].pc = "done"
        /\ Names(producer[p].log) = <<RETRY_QUEUED>>
        /\ queue = <<producer[p].item>>
        /\ producer[q].out = StorageError

\* C10: a drain cycle executes the items that were pending when
\* processRetryQueue was called, in order and each at most once; a cycle that
\* completed executed each of them exactly once and no item added meanwhile.
C10_DrainSnapshot ==
    \A d \in Drainers :
        LET atCall == [k \in 1..Len(drain[d].pendingAtCall) |->
                            drain[d].pendingAtCall[k].id]
            n == Len(drain[d].started)
        IN  /\ n <= Len(atCall)
            /\ drain[d].started = SubSeq(atCall, 1, n)
            /\ drain[d].pc = "done" => drain[d].started = atCall

\* a completed cycle over a non-empty batch, with an item added while it ran
\* still pending and not executed
C10_Witness ==
    \E d \in Drainers, p \in Producers :
        /\ drain[d].pc = "done"
        /\ Len(drain[d].started) >= 1
        /\ p \in Ids(queue)
        /\ p \notin Ids(drain[d].pendingAtCall)
        /\ history[p].handled = 0
        /\ cycles = 1

\* C11: no queued item is lost while producers enqueue during a drain: every
\* item that was stored is either still returned by getPending(), or was
\* removed by the drain after its execution succeeded, or was removed by the
\* drain when its retryCount had reached maxAttempts.
C11_NoItemLost ==
    \A i \in ItemIds :
        producer[i].stored
        => \/ /\ Cardinality({k \in 1..Len(getPending) : getPending[k].id = i}) = 1
              /\ history[i].removed = "no"
           \/ /\ i \notin Ids(getPending)
              /\ history[i].removed = "on success"
              /\ history[i].handled >= 1
           \/ /\ i \notin Ids(getPending)
              /\ history[i].removed = "on giving up"
              /\ RetryCountOf(producer[i].item.context) >= config.maxAttempts

\* an item added while a cycle was running is pending after the cycle, while
\* an item of the cycle's batch was removed on success
C11_Witness ==
    \E d \in Drainers, i, j \in ItemIds :
        /\ drain[d].pc = "done"
        /\ j \notin Ids(drain[d].pendingAtCall)
        /\ j \in Ids(getPending)
        /\ producer[j].stored
        /\ history[i].removed = "on success"
        /\ i \notin Ids(getPending)

\* C12: no operation executes in parallel with itself: also when two
\* processRetryQueue calls overlap, at most one execute() of a queued item's
\* operation is in flight at any time.
C12_NoSelfParallel ==
    \A f, g \in Drainers :
        ( /\ f # g
          /\ drain[f].pc = "awaiting" /\ frame[f].pc = "executing"
          /\ drain[g].pc = "awaiting" /\ frame[g].pc = "executing" )
        => Current(f).id # Current(g).id

\* what a call that ran alone has published once its operation has settled
\* with outcomes o[1..n], under maxAttempts = N
RECURSIVE SoloNames(_, _, _)
SoloNames(o, n, N) ==
    IF n = 0 THEN <<>>
    ELSE SoloNames(o, n - 1, N) \o <<RETRY_ATTEMPT>> \o
         ( IF o[n] = "ok" THEN <<RETRY_SUCCESS>>
           ELSE IF n = N THEN <<RETRY_FAILED, RETRY_EXHAUSTED>>
           ELSE <<RETRY_FAILED, RETRY_SCHEDULED>> )

\* the attempt numbers carried by the call's retry:attempt events, in order
AttemptNumbers(log) ==
    LET at == SelectSeq(log, LAMBDA e : e.name = RETRY_ATTEMPT)
    IN  [k \in 1..Len(at) |-> at[k].data.attempt]

\* C13: concurrent executeWithRetry calls are independent: in every
\* interleaving, each call (subscribers returning normally, maxAttempts >= 1)
\* has published the events, carries the attempt numbers and has the outcome
\* that its own operation's outcomes give a call running alone.
C13_CallsIndependent ==
    \A f \in Callers :
        (frame[f].pc # "idle" /\ Undisturbed(frame[f]) /\ config.maxAttempts >= 1)
        => LET fr == frame[f]
               n == Len(fr.outcomes)
               solo == SoloNames(fr.outcomes, n, config.maxAttempts)
           IN  /\ Names(fr.log) =
                    (IF fr.pc = "executing" THEN solo \o <<RETRY_ATTEMPT>> ELSE solo)
               /\ AttemptNumbers(fr.log) = [k \in 1..fr.attempt |-> k]
               /\ fr.attempt = (IF fr.pc = "executing" THEN n + 1 ELSE n)
               /\ fr.pc = "returned"
                    => fr.outcomes[n] = "ok" /\ fr.out = ResultOf(n)
               /\ fr.pc = "raised"
                    => /\ n = config.maxAttempts
                       /\ fr.outcomes[n] = "fail"
                       /\ fr.out = OpError(n)
               /\ fr.pc = "sleeping"
                    => fr.outcomes[n] = "fail" /\ n < config.maxAttempts

\* two calls in flight at once, at different attempts
C13_Witness ==
    \E f, g \in Callers :
        /\ f # g
        /\ Undisturbed(frame[f]) /\ Undisturbed(frame[g])
        /\ frame[f].pc = "executing" /\ frame[f].attempt = 2
        /\ frame[g].pc = "sleeping" /\ frame[g].attempt = 1

\* the call has got its verification result
Past(wh) == wh.pc \notin {"idle", "verifying"}

\* the verification of the webhook yields valid = false
Refused(wh) == wh.provider = "stripe" /\ wh.verifier \in {"invalid", "throws"}

\* C14: when verification yields valid = false (the verifier returned an
\* invalid result, or threw), webhook:verification:failed is published, the
\* call fails, and no webhook:received, webhook:processed, webhook:event or
\* routed internal event is published for that webhook.
C14_RefusedWebhook ==
    \A w \in Webhooks :
        (Past(webhook[w]) /\ Refused(webhook[w]))
        => LET wh == webhook[w]
           IN  /\ Count(wh.log, WEBHOOK_VERIFICATION_FAILED) = 1
               /\ wh.pc = "raised"
               /\ \A k \in 1..Len(wh.log) :
                    wh.log[k].name \in {WEBHOOK_VERIFICATION_FAILED,
                                        WEBHOOK_PROCESSING_FAILED}

\* a verifier that threw
C14_Witness ==
    \E w \in Webhooks :
        /\ webhook[w].pc = "raised"
        /\ webhook[w].provider = "stripe"
        /\ webhook[w].verifier = "throws"
        /\ Names(webhook[w].log) =
             <<WEBHOOK_VERIFICATION_FAILED, WEBHOOK_PROCESSING_FAILED>>

\* C15: every processWebhook call whose verification succeeded publishes one
\* internal event (mapped or fallback name) and one webhook:event with the
\* same provider, event type and payload, for every payload and whatever the
\* subscribers do.
C15_RoutingNeverDrops ==
    \A w \in Webhooks :
        (Past(webhook[w]) /\ ~Refused(webhook[w]))
        => LET wh == webhook[w]
           IN  /\ Count(wh.log, WEBHOOK_EVENT) = 1
               /\ \E k \in 2..Len(wh.log) :
                    /\ wh.log[k].name = WEBHOOK_EVENT
                    /\ "originalEvent" \in DOMAIN wh.log[k - 1].data
                    /\ wh.log[k - 1].data.provider = wh.log[k].data.provider
                    /\ wh.log[k - 1].data.originalEvent = wh.log[k].data.eventType
                    /\ wh.log[k - 1].data.payload = wh.log[k].data.payload
                    /\ wh.log[k].data.provider = wh.provider
                    /\ wh.log[k].data.payload = wh.payload

\* the field that carries the provider's own event type
TypeField(provider) == IF provider = "paypal" THEN "event_type" ELSE "type"

\* the provider's event map has an entry for the webhook's event type
HasEntry(wh) ==
    /\ wh.payload # JsNull
    /\ TypeField(wh.provider) \in DOMAIN wh.payload
    /\ wh.payload[TypeField(wh.provider)] \in DOMAIN getEventMap(wh.provider)

\* C16: a verified webhook whose event type is in its provider's event map is
\* routed under exactly the mapped name (stripe payment_intent.succeeded is
\* payment:captured), and the webhook:event that follows carries the raw
\* provider event type (subscribers returning normally).
C16_MappedName ==
    \A w \in Webhooks :
        ( /\ Past(webhook[w]) /\ ~Refused(webhook[w])
          /\ Undisturbed(webhook[w]) /\ HasEntry(webhook[w]) )
        => LET wh == webhook[w]
               raw == wh.payload[TypeField(wh.provider)]
           IN  /\ wh.pc # "raised"
               /\ Len(wh.log) >= 3
               /\ wh.log[2].name = getEventMap(wh.provider)[raw]
               /\ wh.log[3].name = WEBHOOK_EVENT
               /\ wh.log[3].data.eventType = raw
               /\ (wh.provider = "stripe" /\ raw = "payment_intent.succeeded")
                    => wh.log[2].name = <<"payment", "captured">>

C16_Witness ==
    \E w \in Webhooks :
        /\ webhook[w].pc = "returned"
        /\ webhook[w].provider = "stripe"
        /\ webhook[w].verifier = "valid"
        /\ webhook[w].payload = [type |-> "payment_intent.succeeded"]
        /\ Names(webhook[w].log) =
             <<WEBHOOK_RECEIVED, <<"payment", "captured">>, WEBHOOK_EVENT,
               WEBHOOK_PROCESSED>>

\* a verified webhook with a payload whose event type is not in the map
Unmapped(wh) ==
    /\ Past(wh) /\ ~Refused(wh) /\ Undisturbed(wh)
    /\ wh.payload # JsNull
    /\ ~HasEntry(wh)

ExpectedCause(wh) ==
    IF ~Refused(wh) THEN TypeError
    ELSE IF wh.verifier = "invalid" THEN VerificationError(SignatureMismatch)
    ELSE VerificationError(VerifierException)

\* C18: a processWebhook call that fails (subscribers returning normally) has
\* published webhook:processing:failed as its last event, after
\* webhook:verification:failed when verification is the cause, and the error
\* the caller gets is the one that caused the failure.
C18_FailureEventThenRaise ==
    \A w \in Webhooks :
        (webhook[w].pc = "raised" /\ Undisturbed(webhook[w]))
        => LET wh == webhook[w]
               n == Len(wh.log)
           IN  /\ n >= 1
               /\ wh.log[n].name = WEBHOOK_PROCESSING_FAILED
               /\ wh.log[n].data.error = ExpectedCause(wh)
               /\ wh.out = ExpectedCause(wh)
               /\ Refused(wh)
                    => Names(wh.log) = <<WEBHOOK_VERIFICATION_FAILED,
                                         WEBHOOK_PROCESSING_FAILED>>

\* a call that failed after verification had succeeded
C18_Witness ==
    \E w \in Webhooks :
        /\ webhook[w].pc = "raised"
        /\ Undisturbed(webhook[w])
        /\ webhook[w].provider = "paypal"
        /\ webhook[w].payload = JsNull
        /\ webhook[w].out = TypeError

\* C19: for exponential, linear and fixed, every config the constructor
\* accepts and every attempt in 1..maxAttempts, the delay is at most
\* config.maxDelay, and for exponential and linear it never decreases from
\* one attempt to the next.
C19_DelayBoundedMonotone ==
    config.strategy \in {"exponential", "linear", "fixed"}
    => \A k \in 1..Len(backoff) :
          /\ backoff[k] <= config.maxDelay
          /\ (config.strategy # "fixed" /\ k > 1) => backoff[k - 1] <= backoff[k]

\* the reference backoff function
ReferenceDelay(cfg, a) ==
    CASE cfg.strategy = "exponential" ->
            Min(cfg.initialDelay * Pow(cfg.backoffFactor, a - 1), cfg.maxDelay)
      [] cfg.strategy = "linear" -> Min(cfg.initialDelay * a, cfg.maxDelay)
      [] cfg.strategy = "fixed" -> cfg.initialDelay
      [] OTHER -> Min(cfg.initialDelay * Pow(2, a - 1), cfg.maxDelay)

\* the failed attempts of the call when it published its k-th event
FailedBefore(log, k) ==
    Cardinality({j \in 1..k : log[j].name = RETRY_FAILED})

\* C20: the retry:scheduled event published after failed attempt a carries
\* the delay of the reference backoff function for a (exponential, linear,
\* fixed, and 2^(a-1) growth for an unrecognized strategy whatever the
\* backoffFactor) and nextAttempt = a + 1.
C20_ScheduledDelay ==
    \A f \in Callers :
        \A k \in 1..Len(frame[f].log) :
            frame[f].log[k].name = RETRY_SCHEDULED
            => LET a == FailedBefore(frame[f].log, k)
               IN  /\ frame[f].log[k].data.delay = ReferenceDelay(config, a)
                   /\ frame[f].log[k].data.nextAttempt = a + 1

\* an unrecognized strategy with a backoffFactor other than 2, second failure
C20_Witness ==
    \E f \in Callers :
        /\ config.strategy = "jitter"
        /\ config.backoffFactor = 3
        /\ config.initialDelay = 3
        /\ \E k \in 1..Len(frame[f].log) :
             /\ frame[f].log[k].name = RETRY_SCHEDULED
             /\ FailedBefore(frame[f].log, k) = 2
             /\ frame[f].log[k].data.delay = 6

\* C21: whatever partial config the constructor got, the effective config is
\* well-formed: maxAttempts is an integer >= 1, and a field the caller did not
\* usably supply (absent, or 0) holds its default. The callers of this
\* specification supply at most maxAttempts, so the other four fields are the
\* defaults, and a supplied maxAttempts of 0 is replaced by the default.
C21_ConfigWellFormed ==
    /\ config.maxAttempts >= 1
    /\ config.maxAttempts \in (1..MaxSupplied) \cup {DefaultMaxAttempts}
    /\ config.initialDelay = DefaultInitialDelay
    /\ config.maxDelay = DefaultMaxDelay
    /\ config.backoffFactor = DefaultBackoffFactor
    /\ config.strategy = DefaultStrategy

\* the call of frame fr was given a context object that supplies maxAttempts
Overrides(fr) ==
    /\ fr.pc # "idle"
    /\ fr.ctx \in Contexts
    /\ "maxAttempts" \in DOMAIN context[fr.ctx]

\* C22: an executeWithRetry call whose context supplies maxAttempts = m is
\* governed by m for that call: it makes at most m attempts, and it fails only
\* after m failed attempts; the instance config stays what the constructor
\* made it (instances constructed with maxAttempts >= 1).
C22_ContextOverrides ==
    \A f \in Callers :
        (Overrides(frame[f]) /\ config.maxAttempts >= 1)
        => LET m == context[frame[f].ctx].maxAttempts
           IN  /\ frame[f].attempt <= m
               /\ frame[f].execs <= m
               /\ frame[f].pc = "raised" => Failures(frame[f]) = m

\* the ids of the items that were pending when drain d was called, in
\* insertion order
PendingAtCall(d) ==
    [k \in 1..Len(drain[d].pendingAtCall) |-> drain[d].pendingAtCall[k].id]

FailedDrains(i) ==
    history[i].handled - (IF history[i].removed = "on success" THEN 1 ELSE 0)

\* C24: a queued item's retryCount counts that item's own failed drain
\* attempts and nothing else, also for items that were enqueued with the same
\* context object as another item.
C24_RetryCountOwn ==
    \A i \in ItemIds :
        producer[i].stored
        => RetryCountOf(producer[i].item.context) = FailedDrains(i)

\* the positions of the events called name in a log
Positions(log, name) == {k \in 1..Len(log) : log[k].name = name}

\* C25: a successful processWebhook call has published, in this order,
\* webhook:received, the routed internal event, webhook:event and
\* webhook:processed; and a call that published webhook:processed (subscribers
\* returning normally) published it after both routed events and published
\* neither webhook:processing:failed nor webhook:verification:failed.
C25_SuccessOrder ==
    \A w \in Webhooks :
        LET wh == webhook[w]
        IN  /\ wh.pc = "returned"
              => /\ Len(wh.log) = 4
                 /\ wh.log[1].name = WEBHOOK_RECEIVED
                 /\ "originalEvent" \in DOMAIN wh.log[2].data
                 /\ wh.log[2].name \notin {WEBHOOK_RECEIVED, WEBHOOK_EVENT,
                                           WEBHOOK_PROCESSED}
                 /\ wh.log[3].name = WEBHOOK_EVENT
                 /\ wh.log[4].name = WEBHOOK_PROCESSED
            /\ (Undisturbed(wh) /\ Positions(wh.log, WEBHOOK_PROCESSED) # {})
              => /\ Positions(wh.log, WEBHOOK_PROCESSED) = {4}
                 /\ Positions(wh.log, WEBHOOK_EVENT) = {3}
                 /\ "originalEvent" \in DOMAIN wh.log[2].data
                 /\ Positions(wh.log, WEBHOOK_PROCESSING_FAILED) = {}
                 /\ Positions(wh.log, WEBHOOK_VERIFICATION_FAILED) = {}
                 /\ wh.pc = "returned"

\* a successful call of a provider without event map
C25_Witness ==
    \E w \in Webhooks :
        /\ webhook[w].pc = "returned"
        /\ webhook[w].provider = "square"
        /\ Names(webhook[w].log) =
             <<WEBHOOK_RECEIVED, <<"webhook", "square", "order.paid">>,
               WEBHOOK_EVENT, WEBHOOK_PROCESSED>>
====
